---------------------------- MODULE Spec2Model ----------------------------
(***************************************************************************)
(* django-mysqlpool: backends/mysqlpool/base.py.                           *)
(*                                                                         *)
(* Spec     one QueuePool shared by concurrent threads: the overridden     *)
(*          _do_get, statement by statement, and the inherited release.    *)
(* SpecReg  get_pool() and connect() in a process and the children it      *)
(*          forks, each call run to its end.                               *)
(* SpecKey  connect() for parameter sets that hold nested dicts.           *)
(*                                                                         *)
(* The routines of sqlalchemy.pool that base.py calls (the bounded queue,  *)
(* _inc_overflow, _dec_overflow, _do_return_conn) are not part of base.py; *)
(* they are modelled by what the library does and are named as such.       *)
(***************************************************************************)
EXTENDS Integers, Sequences, FiniteSets, TLC

\* ------------------------------------------------------------------ bounds
NThreads == 2
MaxSize == 2
MaxOverflow == 1
MaxHeld == 2
MaxForks == 2
MaxOut == 2
MaxDictKeys == 2
MaxNow == 120

\* line 21
DEFAULT_POOL_TIMEOUT == 119

Threads == 1..NThreads
Timeouts == {10, 30}
FactoryErrors == {"OperationalError", "InterfaceError"}

VARIABLES
    pool_size,      \* self._pool.maxsize, what self.size() returns
    max_overflow,   \* self._max_overflow
    timeout,        \* self._timeout
    overflow,       \* self._overflow
    idle,           \* number of connections in self._pool (the queue)
    loc,            \* per thread: position in the call and its locals
    held,           \* per thread: connections checked out to it
    hist,           \* per thread: what the current call has observed and done
    pid,            \* os.getpid() of the process that is followed
    MYSQLPOOL,      \* the module global: None, or the manager with its _pid
    proxies,        \* sqlalchemy's module table of managers holds MYSQLPOOL
    objs,           \* the QueuePool objects created so far, in order
    out,            \* connections checked out through connect()
    menu,           \* the keyword arguments the callers pass to connect()
    seen,           \* (key, pool) of the connects made since the last fork
    last,           \* the last connect(): where, for what, from which pool
    now,            \* the clock, time.time()
    recycle,        \* the recycle age the pools are created with
    aged            \* a pool whose connections carry their creation time

poolvars == <<timeout, overflow, idle, loc, held, hist>>
agevars == <<now, recycle, aged>>
regvars == <<pid, MYSQLPOOL, proxies, objs, out, menu, seen, last, agevars>>
vars == <<pool_size, max_overflow, poolvars, regvars>>

None == <<>>
Some(v) == <<v>>

NoResult == [kind |-> "none"]

loc0 == [pc |-> "idle", wait |-> FALSE, exc |-> None, result |-> NoResult]

hist0 ==
    [w41 |-> None,        \* self._overflow as read on line 41
     c44 |-> None,        \* self._overflow as read on line 44
     blocked |-> FALSE,   \* the call suspended in self._pool.get
     timedOut |-> FALSE,  \* self._pool.get raised Empty after the full timeout
     polled |-> FALSE,    \* self._pool.get raised Empty at once (block = False)
     net |-> 0,           \* _inc_overflow successes minus _dec_overflow calls
     creates |-> 0,       \* calls of self._create_connection
     raised |-> None,     \* what the factory raised
     warn45 |-> None,     \* the warning of lines 45-48
     warn62 |-> None,     \* the warning of lines 63-66
     errlog |-> FALSE,    \* the error of lines 52-54
     retried |-> FALSE,   \* the call has called self._do_get again
     rel |-> None]        \* effect of a release

\* ------------------------------------------------- QueuePool.__init__ (28-34)
\* pool.QueuePool.__init__: an empty queue of pool_size places, and
\* self._overflow = 0 - pool_size.
PoolInit ==
    /\ pool_size \in 1..MaxSize
    /\ max_overflow \in -1..MaxOverflow
    /\ timeout \in Timeouts
    /\ overflow = 0 - pool_size
    /\ idle = 0

\* lines 134-136: the recycle age is MYSQLPOOL_ARGUMENTS['recycle'] when the
\* settings give one, else DEFAULT_POOL_TIMEOUT
recycle_setting(args) ==
    IF "recycle" \in DOMAIN args THEN args.recycle ELSE DEFAULT_POOL_TIMEOUT

\* the clock is not followed: no connection ages
NoAging ==
    /\ now = 0
    /\ recycle = recycle_setting(<<>>)
    /\ aged = None

\* Spec follows one pool; the registry is not in play.
NoRegistry ==
    /\ NoAging
    /\ pid = 0
    /\ MYSQLPOOL = None
    /\ proxies = FALSE
    /\ objs = <<>>
    /\ out = <<>>
    /\ menu = <<>>
    /\ seen = {}
    /\ last = None

Init ==
    /\ PoolInit
    /\ loc = [t \in Threads |-> loc0]
    /\ held = [t \in Threads |-> 0]
    /\ hist = [t \in Threads |-> hist0]
    /\ NoRegistry

\* --------------------------------------------------------- _do_get (36-74)
\* line 38 with the sentinel taken for a limit (>= for >)
use_overflow_sentinel_as_limit == max_overflow >= -1

\* line 38
use_overflow == max_overflow > -1

\* line 41: the value of wait for the counter value ov
wait_for(ov) == use_overflow /\ ov >= max_overflow

\* line 44: the recheck in the handler of Empty
pool_full(ov) == use_overflow /\ ov >= max_overflow

\* line 62
at_capacity(ov) == ov >= 0

\* sqlalchemy QueuePool._inc_overflow: unconditional when max_overflow is -1,
\* else a check and an increment under self._overflow_lock.
inc_overflow_ok(ov) == max_overflow = -1 \/ ov < max_overflow

\* A caller enters pool.connect(), which reaches _do_get.
Acquire(t) ==
    /\ loc[t].pc = "idle"
    /\ held[t] < MaxHeld
    /\ loc' = [loc EXCEPT ![t].pc = "L38"]
    /\ hist' = [hist EXCEPT ![t] = hist0]
    /\ UNCHANGED <<pool_size, max_overflow, timeout, overflow, idle, held>>
    /\ UNCHANGED regvars

\* lines 38-41: use_overflow and wait
L38(t) ==
    /\ loc[t].pc = "L38"
    /\ loc' = [loc EXCEPT ![t].pc = "L42", ![t].wait = wait_for(overflow)]
    /\ hist' = [hist EXCEPT ![t].w41 = Some(overflow)]
    /\ UNCHANGED <<pool_size, max_overflow, timeout, overflow, idle, held>>
    /\ UNCHANGED regvars

\* The call returns a connection to its caller.
Checkout(t) ==
    /\ held' = [held EXCEPT ![t] = @ + 1]
    /\ loc' = [loc EXCEPT ![t].pc = "done", ![t].result = [kind |-> "conn"]]

\* line 42, self._pool.get(wait, self._timeout): an item is there
L42_item(t) ==
    /\ loc[t].pc = "L42"
    /\ idle > 0
    /\ idle' = idle - 1
    /\ Checkout(t)
    /\ UNCHANGED <<pool_size, max_overflow, timeout, overflow, hist>>
    /\ UNCHANGED regvars

\* line 42 with block = False on an empty queue: Empty at once
L42_poll(t) ==
    /\ loc[t].pc = "L42"
    /\ idle = 0
    /\ ~loc[t].wait
    /\ loc' = [loc EXCEPT ![t].pc = "L44"]
    /\ hist' = [hist EXCEPT ![t].polled = TRUE, ![t].timedOut = FALSE]
    /\ UNCHANGED <<pool_size, max_overflow, timeout, overflow, idle, held>>
    /\ UNCHANGED regvars

\* line 42 passing block = False whatever wait is: Empty at once
L42_block_never_waits(t) ==
    /\ loc[t].pc = "L42"
    /\ idle = 0
    /\ loc[t].wait
    /\ loc' = [loc EXCEPT ![t].pc = "L44"]
    /\ hist' = [hist EXCEPT ![t].polled = TRUE, ![t].timedOut = FALSE]
    /\ UNCHANGED <<pool_size, max_overflow, timeout, overflow, idle, held>>
    /\ UNCHANGED regvars

\* line 42 with block = True on an empty queue: the caller is suspended
L42_block(t) ==
    /\ loc[t].pc = "L42"
    /\ idle = 0
    /\ loc[t].wait
    /\ loc' = [loc EXCEPT ![t].pc = "blocked"]
    /\ hist' = [hist EXCEPT ![t].blocked = TRUE]
    /\ UNCHANGED <<pool_size, max_overflow, timeout, overflow, idle, held>>
    /\ UNCHANGED regvars

\* a suspended get is woken by a put and takes the item
Blocked_item(t) ==
    /\ loc[t].pc = "blocked"
    /\ idle > 0
    /\ idle' = idle - 1
    /\ Checkout(t)
    /\ UNCHANGED <<pool_size, max_overflow, timeout, overflow, hist>>
    /\ UNCHANGED regvars

\* a suspended get finds the queue still empty when the timeout has elapsed
Blocked_timeout(t) ==
    /\ loc[t].pc = "blocked"
    /\ idle = 0
    /\ loc' = [loc EXCEPT ![t].pc = "L44"]
    /\ hist' = [hist EXCEPT ![t].timedOut = TRUE, ![t].polled = FALSE]
    /\ UNCHANGED <<pool_size, max_overflow, timeout, overflow, idle, held>>
    /\ UNCHANGED regvars

\* line 44: except Empty, the recheck of the counter
L44(t) ==
    /\ loc[t].pc = "L44"
    /\ loc' = [loc EXCEPT ![t].pc = IF pool_full(overflow) THEN "L45" ELSE "L60"]
    /\ hist' = [hist EXCEPT ![t].c44 = Some(overflow)]
    /\ UNCHANGED <<pool_size, max_overflow, timeout, overflow, idle, held>>
    /\ UNCHANGED regvars

\* lines 45-58 without the test of line 49: the error is raised at once
L45_without_wait_test(t) ==
    /\ loc[t].pc = "L45"
    /\ hist' = [hist EXCEPT
                  ![t].warn45 = Some([size |-> pool_size, overflow |-> overflow,
                                      max_overflow |-> max_overflow])]
    /\ loc' = [loc EXCEPT ![t].pc = "L52"]
    /\ UNCHANGED <<pool_size, max_overflow, timeout, overflow, idle, held>>
    /\ UNCHANGED regvars

\* lines 45-50: the warning, then the retry when the call had not waited
L45(t) ==
    /\ loc[t].pc = "L45"
    /\ hist' = [hist EXCEPT
                  ![t].warn45 = Some([size |-> pool_size, overflow |-> overflow,
                                      max_overflow |-> max_overflow]),
                  ![t].retried = @ \/ ~loc[t].wait]
    /\ loc' = [loc EXCEPT ![t].pc = IF ~loc[t].wait THEN "L38" ELSE "L52"]
    /\ UNCHANGED <<pool_size, max_overflow, timeout, overflow, idle, held>>
    /\ UNCHANGED regvars

\* lines 55-58 formatting self._max_overflow where self.overflow() stands
TimeoutError_reports_limit ==
    [kind |-> "TimeoutError",
     args |-> [size |-> pool_size, overflow |-> max_overflow, timeout |-> timeout]]

\* lines 55-58: the arguments of the TimeoutError message
TimeoutError ==
    [kind |-> "TimeoutError",
     args |-> [size |-> pool_size, overflow |-> overflow, timeout |-> timeout]]

\* lines 52-58 with a self._dec_overflow() before the raise, as if the call
\* held a reservation
L52_gives_back_place(t) ==
    /\ loc[t].pc = "L52"
    /\ overflow' = overflow - 1
    /\ hist' = [hist EXCEPT ![t].errlog = TRUE, ![t].net = @ - 1]
    /\ loc' = [loc EXCEPT ![t].pc = "done", ![t].result = TimeoutError]
    /\ UNCHANGED <<pool_size, max_overflow, timeout, idle, held>>
    /\ UNCHANGED regvars

\* lines 52-58: the error is logged and TimeoutError is raised
L52(t) ==
    /\ loc[t].pc = "L52"
    /\ hist' = [hist EXCEPT ![t].errlog = TRUE]
    /\ loc' = [loc EXCEPT ![t].pc = "done", ![t].result = TimeoutError]
    /\ UNCHANGED <<pool_size, max_overflow, timeout, overflow, idle, held>>
    /\ UNCHANGED regvars

\* line 60 without the test of what _inc_overflow returns: the connection is
\* created whether or not a place was reserved
L60_result_ignored(t) ==
    /\ loc[t].pc = "L60"
    /\ overflow' = IF inc_overflow_ok(overflow) THEN overflow + 1 ELSE overflow
    /\ loc' = [loc EXCEPT ![t].pc = "L62"]
    /\ hist' = [hist EXCEPT ![t].net = IF inc_overflow_ok(overflow) THEN @ + 1 ELSE @]
    /\ UNCHANGED <<pool_size, max_overflow, timeout, idle, held>>
    /\ UNCHANGED regvars

\* line 60 with the counter incremented whether or not there is a place, as
\* it is for max_overflow = -1
L60_always_increments(t) ==
    /\ loc[t].pc = "L60"
    /\ overflow' = overflow + 1
    /\ loc' = [loc EXCEPT ![t].pc = "L62"]
    /\ hist' = [hist EXCEPT ![t].net = @ + 1]
    /\ UNCHANGED <<pool_size, max_overflow, timeout, idle, held>>
    /\ UNCHANGED regvars

\* lines 60 and 73-74: the reservation, or the retry when it is refused
L60(t) ==
    /\ loc[t].pc = "L60"
    /\ IF inc_overflow_ok(overflow)
       THEN /\ overflow' = overflow + 1
            /\ loc' = [loc EXCEPT ![t].pc = "L62"]
            /\ hist' = [hist EXCEPT ![t].net = @ + 1]
       ELSE /\ overflow' = overflow
            /\ loc' = [loc EXCEPT ![t].pc = "L38"]
            /\ hist' = [hist EXCEPT ![t].retried = TRUE]
    /\ UNCHANGED <<pool_size, max_overflow, timeout, idle, held>>
    /\ UNCHANGED regvars

\* lines 62-66: the warning before the creation
L62(t) ==
    /\ loc[t].pc = "L62"
    /\ hist' = [hist EXCEPT ![t].warn62 =
                  IF at_capacity(overflow)
                  THEN Some([size |-> pool_size, overflow |-> overflow,
                             max_overflow |-> max_overflow])
                  ELSE None]
    /\ loc' = [loc EXCEPT ![t].pc = "L69"]
    /\ UNCHANGED <<pool_size, max_overflow, timeout, overflow, idle, held>>
    /\ UNCHANGED regvars

\* line 69: self._create_connection() returns a connection
L69_ok(t) ==
    /\ loc[t].pc = "L69"
    /\ hist' = [hist EXCEPT ![t].creates = @ + 1]
    /\ Checkout(t)
    /\ UNCHANGED <<pool_size, max_overflow, timeout, overflow, idle>>
    /\ UNCHANGED regvars

\* lines 69-70: self._create_connection() raises
L69_raise(t) ==
    /\ loc[t].pc = "L69"
    /\ \E e \in FactoryErrors :
         /\ loc' = [loc EXCEPT ![t].pc = "L72", ![t].exc = Some(e)]
         /\ hist' = [hist EXCEPT ![t].creates = @ + 1, ![t].raised = Some(e)]
    /\ UNCHANGED <<pool_size, max_overflow, timeout, overflow, idle, held>>
    /\ UNCHANGED regvars

\* lines 70-72 re-raising without self._dec_overflow()
L72_without_dec(t) ==
    /\ loc[t].pc = "L72"
    /\ overflow' = overflow
    /\ hist' = hist
    /\ loc' = [loc EXCEPT ![t].pc = "done",
                          ![t].result = [kind |-> "FactoryError", exc |-> loc[t].exc[1]]]
    /\ UNCHANGED <<pool_size, max_overflow, timeout, idle, held>>
    /\ UNCHANGED regvars

\* lines 70-74 with the retry taken after a failed creation as well
L72_retry_after_failure(t) ==
    /\ loc[t].pc = "L72"
    /\ overflow' = overflow - 1
    /\ hist' = [hist EXCEPT ![t].net = @ - 1, ![t].retried = TRUE]
    /\ loc' = [loc EXCEPT ![t].pc = "L38"]
    /\ UNCHANGED <<pool_size, max_overflow, timeout, idle, held>>
    /\ UNCHANGED regvars

\* lines 71-72: self._dec_overflow(), then safe_reraise raises what was caught
L72(t) ==
    /\ loc[t].pc = "L72"
    /\ overflow' = overflow - 1
    /\ hist' = [hist EXCEPT ![t].net = @ - 1]
    /\ loc' = [loc EXCEPT ![t].pc = "done",
                          ![t].result = [kind |-> "FactoryError", exc |-> loc[t].exc[1]]]
    /\ UNCHANGED <<pool_size, max_overflow, timeout, idle, held>>
    /\ UNCHANGED regvars

\* ------------------------------------- release (inherited _do_return_conn)
\* self._pool.put(conn, False): queued when there is room, else Full
Release_put(t) ==
    /\ loc[t].pc = "idle"
    /\ held[t] > 0
    /\ held' = [held EXCEPT ![t] = @ - 1]
    /\ IF idle < pool_size
       THEN /\ idle' = idle + 1
            /\ loc' = [loc EXCEPT ![t].pc = "done", ![t].result = [kind |-> "released"]]
            /\ hist' = [hist EXCEPT ![t] =
                          [hist0 EXCEPT !.rel = Some([idleAtPut |-> idle, queued |-> TRUE,
                                                      closed |-> FALSE, dec |-> 0])]]
       ELSE /\ idle' = idle
            /\ loc' = [loc EXCEPT ![t].pc = "full"]
            /\ hist' = [hist EXCEPT ![t] =
                          [hist0 EXCEPT !.rel = Some([idleAtPut |-> idle, queued |-> FALSE,
                                                      closed |-> FALSE, dec |-> 0])]]
    /\ UNCHANGED <<pool_size, max_overflow, timeout, overflow>>
    /\ UNCHANGED regvars

\* except Full closing the connection without self._dec_overflow()
Release_close_without_dec(t) ==
    /\ loc[t].pc = "full"
    /\ overflow' = overflow
    /\ loc' = [loc EXCEPT ![t].pc = "done", ![t].result = [kind |-> "released"]]
    /\ hist' = [hist EXCEPT ![t].rel = Some([hist[t].rel[1] EXCEPT !.closed = TRUE])]
    /\ UNCHANGED <<pool_size, max_overflow, timeout, idle, held>>
    /\ UNCHANGED regvars

\* except Full: conn.close(), then self._dec_overflow()
Release_close(t) ==
    /\ loc[t].pc = "full"
    /\ overflow' = overflow - 1
    /\ loc' = [loc EXCEPT ![t].pc = "done", ![t].result = [kind |-> "released"]]
    /\ hist' = [hist EXCEPT ![t].rel = Some([hist[t].rel[1] EXCEPT !.closed = TRUE, !.dec = 1])]
    /\ UNCHANGED <<pool_size, max_overflow, timeout, idle, held>>
    /\ UNCHANGED regvars

\* The caller has its result (a connection, an exception, a finished release).
Return(t) ==
    /\ loc[t].pc = "done"
    /\ loc' = [loc EXCEPT ![t] = loc0]
    /\ hist' = [hist EXCEPT ![t] = hist0]
    /\ UNCHANGED <<pool_size, max_overflow, timeout, overflow, idle, held>>
    /\ UNCHANGED regvars

Next ==
    \E t \in Threads :
        \/ Acquire(t)
        \/ L38(t)
        \/ L42_item(t)
        \/ L42_poll(t)
        \/ L42_block(t)
        \/ Blocked_item(t)
        \/ Blocked_timeout(t)
        \/ L44(t)
        \/ L45(t)
        \/ L52(t)
        \/ L60(t)
        \/ L62(t)
        \/ L69_ok(t)
        \/ L69_raise(t)
        \/ L72(t)
        \/ Release_put(t)
        \/ Release_close(t)
        \/ Return(t)

Spec == Init /\ [][Next]_vars

\* The scenario of a fresh pool whose factory never fails and whose callers
\* release nothing: the same steps without the release and the failure (and
\* without the two steps that take an item from the queue, which stays empty).
NextNoRelease ==
    \E t \in Threads :
        \/ Acquire(t)
        \/ L38(t)
        \/ L42_poll(t)
        \/ L42_block(t)
        \/ Blocked_timeout(t)
        \/ L44(t)
        \/ L45(t)
        \/ L52(t)
        \/ L60(t)
        \/ L62(t)
        \/ L69_ok(t)
        \/ Return(t)

SpecNoRelease == Init /\ [][NextNoRelease]_vars

\* the steps of thread t in that scenario
StepNoRelease(t) ==
    \/ L38(t) \/ L42_poll(t) \/ L42_block(t) \/ Blocked_timeout(t) \/ L44(t)
    \/ L45(t) \/ L52(t) \/ L60(t) \/ L62(t) \/ L69_ok(t)

\* Threads are scheduled fairly and a timed wait ends: a call that has a
\* step to take takes one.
FairNoRelease == SpecNoRelease /\ \A t \in Threads : WF_vars(StepNoRelease(t))

\* any step of thread t: of a call it is in, or the start of an acquire or
\* of a release
ThreadStep(t) ==
    \/ Acquire(t) \/ L38(t) \/ L42_item(t) \/ L42_poll(t) \/ L42_block(t)
    \/ Blocked_item(t) \/ Blocked_timeout(t) \/ L44(t) \/ L45(t) \/ L52(t)
    \/ L60(t) \/ L62(t) \/ L69_ok(t) \/ L69_raise(t) \/ L72(t)
    \/ Release_put(t) \/ Release_close(t) \/ Return(t)

\* a pool of one base connection
InitSmall ==
    /\ Init
    /\ pool_size = 1
    /\ timeout = 30

\* Every thread is scheduled again and again, and a timed wait ends: callers
\* keep acquiring and releasing, and a call that has a step to take takes it.
FairSpec == InitSmall /\ [][Next]_vars /\ \A t \in Threads : WF_vars(ThreadStep(t))

\* ---------------------------------------------------- connect (146-160)
\* A dict is the sequence of its entries in iteration order, each a key and a
\* value; a value is iterable (a string, a tuple: tup are its elements) or
\* not (a function, a number: tup holds its identity).
DictKeys == 1..MaxDictKeys
DictVals == {[it |-> TRUE, tup |-> <<7>>], [it |-> FALSE, tup |-> <<8>>]}

RECURSIVE DictsOver(_)
DictsOver(ks) ==
    {<<>>} \cup
    UNION {{<<[k |-> k, v |-> v]>> \o d : d \in DictsOver(ks \ {k}), v \in DictVals}
           : k \in ks}

Dicts == DictsOver(DictKeys)

\* dict.__eq__: the same entries, in whatever order
DictEq(d1, d2) == {d1[i] : i \in DOMAIN d1} = {d2[i] : i \in DOMAIN d2}

\* A Python value passed as a keyword argument: an int or a HashableDict.
PyInt(n) == [kind |-> "int", n |-> n, d |-> <<>>]
PyDict(d) == [kind |-> "HashableDict", n |-> 0, d |-> d]

\* builtin hash of a tuple, from the hashes of its items: CPython combines
\* them in order, each step multiplying the running value and adding the next
\* item's hash, in a fixed word width.
HashMult == 31
HashSeed == 7
HashMod == 65536

RECURSIVE HashTuple(_)
HashTuple(hs) ==
    IF hs = <<>> THEN HashSeed
    ELSE (HashTuple(SubSeq(hs, 1, Len(hs) - 1)) * HashMult + hs[Len(hs)]) % HashMod

\* line 77-83: isiterable
isiterable(v) == v.it

\* lines 111-118, HashableDict.__hash__: the (key, tuple(value)) of the
\* entries with an iterable value, in the dict's iteration order, hashed as
\* a tuple
HashableDict_hash(d) ==
    LET items == SelectSeq(d, LAMBDA e : isiterable(e.v))
    IN HashTuple([i \in DOMAIN items |->
                    HashTuple(<<items[i].k, HashTuple(items[i].v.tup)>>)])

\* builtin hash of a keyword's name
HashStr(name) == CASE name = "conv" -> 101 [] name = "host" -> 102 [] OTHER -> 103

\* builtin hash of a value
HashValue(v) == IF v.kind = "int" THEN v.n ELSE HashableDict_hash(v.d)

\* == of two values
PyEq(v, w) == v.kind = w.kind /\ v.n = w.n /\ DictEq(v.d, w.d)

\* lines 151-157: conv and ssl are popped, and put back as a HashableDict
\* when truthy (neither None nor empty). The result is in the order of the
\* keywords' names, in which sqlalchemy's _DBProxy._serialize lists it.
connect_kwargs(p) ==
    (IF p.conv # None /\ p.conv[1] # <<>>
        THEN <<[name |-> "conv", val |-> PyDict(p.conv[1])]>> ELSE <<>>)
    \o <<[name |-> "host", val |-> PyInt(p.host)]>>
    \o (IF p.ssl # None /\ p.ssl[1] # <<>>
           THEN <<[name |-> "ssl", val |-> PyDict(p.ssl[1])]>> ELSE <<>>)

\* hash and == of the serialized key, a tuple of (name, value) pairs
HashKey(key) ==
    HashTuple([i \in DOMAIN key |-> HashTuple(<<HashStr(key[i].name), HashValue(key[i].val)>>)])

KeyEq(k1, k2) ==
    /\ Len(k1) = Len(k2)
    /\ \A i \in DOMAIN k1 : k1[i].name = k2[i].name /\ PyEq(k1[i].val, k2[i].val)

\* self.pools[key] in sqlalchemy's _DBProxy.get_pool: a dict lookup, by hash
\* and then by ==
Lookup(pools, key) ==
    {e \in pools : HashKey(e.key) = HashKey(key) /\ KeyEq(e.key, key)}

\* sqlalchemy pool.clear_managers(): every manager in the module table
\* drops its pools, and the table is emptied
clear_managers(m) ==
    IF proxies THEN [m EXCEPT !.pools = {}] ELSE m

\* get_pool() without the test of line 132 (or without the global statement
\* of line 131): every call makes a new manager
get_pool_uncached == [_pid |-> pid, pools |-> {}]

\* lines 129-143, get_pool(): the manager it returns
get_pool ==
    LET m == IF MYSQLPOOL = None THEN [_pid |-> pid, pools |-> {}] ELSE MYSQLPOOL[1]
    IN IF m._pid # pid THEN clear_managers(m) ELSE m

\* lines 138 and 141-142: whether the module table holds the manager afterwards
get_pool_proxies ==
    LET registered == IF MYSQLPOOL = None THEN TRUE ELSE proxies
        m == IF MYSQLPOOL = None THEN [_pid |-> pid, pools |-> {}] ELSE MYSQLPOOL[1]
    IN IF m._pid # pid THEN FALSE ELSE registered

\* _do_get (36-74) run by a single caller on pool object o; ok tells whether
\* the factory succeeds. No other caller changes the counter meanwhile, so
\* line 44 finds what line 41 found and _inc_overflow what line 44 found.
DoGet(o, ok) ==
    IF o.idle # <<>>
    THEN [obj |-> [o EXCEPT !.idle = Tail(@)], kind |-> "conn", madeIn |-> Head(o.idle),
          reused |-> TRUE]
    ELSE IF pool_full(o.overflow) /\ wait_for(o.overflow)
    THEN [obj |-> o, kind |-> "TimeoutError", madeIn |-> pid, reused |-> FALSE]
    ELSE IF ~inc_overflow_ok(o.overflow)
    THEN [obj |-> o, kind |-> "retry", madeIn |-> pid, reused |-> FALSE]
    ELSE IF ok
    THEN [obj |-> [o EXCEPT !.overflow = @ + 1], kind |-> "conn", madeIn |-> pid,
          reused |-> FALSE]
    ELSE [obj |-> o, kind |-> "FactoryError", madeIn |-> pid, reused |-> FALSE]

\* lines 146-160, connect(**menu[i]): the arguments are normalised, get_pool()
\* gives the manager, the manager finds or creates the pool of the key, and
\* the pool's connect() runs _do_get.
Connect(i) ==
    /\ i \in DOMAIN menu
    /\ Len(out) < MaxOut
    /\ \E ok \in BOOLEAN, key \in {connect_kwargs(menu[i])}, m \in {get_pool} :
       \E found \in {Lookup(m.pools, key)} :
       \E id \in (IF found = {} THEN {Len(objs) + 1} ELSE {e.pool : e \in found}) :
       \E objs1 \in {IF found = {}
                     THEN Append(objs, [key |-> key, born |-> pid,
                                        overflow |-> 0 - pool_size, idle |-> <<>>])
                     ELSE objs} :
       \E got \in {DoGet(objs1[id], ok)} :
           /\ MYSQLPOOL' = Some([m EXCEPT !.pools = @ \cup {[key |-> key, pool |-> id]}])
           /\ proxies' = get_pool_proxies
           /\ objs' = [objs1 EXCEPT ![id] = got.obj]
           /\ out' = IF got.kind = "conn"
                     THEN Append(out, [pool |-> id, madeIn |-> got.madeIn]) ELSE out
           /\ seen' = seen \cup {[arg |-> i, key |-> key, pool |-> id]}
           /\ last' = Some([pid |-> pid, pool |-> id, kind |-> got.kind,
                            madeIn |-> got.madeIn, reused |-> got.reused,
                            stale |-> m._pid # pid, first |-> seen = {},
                            known |-> MYSQLPOOL # None
                                      /\ Lookup(MYSQLPOOL[1].pools, key) # {},
                            before |-> IF MYSQLPOOL = None THEN {}
                                       ELSE {e.pool : e \in MYSQLPOOL[1].pools}])
    /\ UNCHANGED <<pool_size, max_overflow, poolvars, pid, menu, agevars>>

\* The caller closes connection out[j]: the inherited _do_return_conn of the
\* pool object the connection belongs to.
ReleaseConn(j) ==
    /\ j \in DOMAIN out
    /\ LET c == out[j]
           o == objs[c.pool]
       IN objs' = [objs EXCEPT ![c.pool] =
                     IF Len(o.idle) < pool_size
                     THEN [o EXCEPT !.idle = Append(@, c.madeIn)]
                     ELSE [o EXCEPT !.overflow = @ - 1]]
    /\ out' = SubSeq(out, 1, j - 1) \o SubSeq(out, j + 1, Len(out))
    /\ UNCHANGED <<pool_size, max_overflow, poolvars, pid, MYSQLPOOL, proxies, menu,
                   seen, last, agevars>>

\* os.fork(): the child is followed. It has a new pid and a copy of the
\* parent's memory: the manager, the pools, the connections.
Fork ==
    /\ pid < MaxForks
    /\ pid' = pid + 1
    /\ seen' = {}
    /\ UNCHANGED <<pool_size, max_overflow, poolvars, MYSQLPOOL, proxies, objs, out,
                   menu, last, agevars>>

NoThreads ==
    /\ timeout \in {30}
    /\ overflow = 0
    /\ idle = 0
    /\ loc = <<>>
    /\ held = <<>>
    /\ hist = <<>>

RegistryInit ==
    /\ NoAging
    /\ pid = 0
    /\ MYSQLPOOL = None
    /\ proxies = FALSE
    /\ objs = <<>>
    /\ out = <<>>
    /\ seen = {}
    /\ last = None

NoDicts(h) == [host |-> h, conv |-> None, ssl |-> None]

\* SpecReg: one process and its descendants call connect() for two
\* parameter sets, release and fork.
InitReg ==
    /\ pool_size = 1
    /\ max_overflow \in {0, 1}
    /\ NoThreads
    /\ RegistryInit
    /\ menu = <<NoDicts(1), NoDicts(2)>>

NextReg ==
    \/ \E i \in 1..2 : Connect(i)
    \/ \E j \in 1..MaxOut : ReleaseConn(j)
    \/ Fork

SpecReg == InitReg /\ [][NextReg]_vars

\* SpecKey: one process calls connect() with two parameter sets that may
\* hold nested dicts, and keeps the connections.
OptDicts == {None} \cup {Some(d) : d \in Dicts}
SslDicts == {None, Some(<<>>), Some(<<[k |-> 1, v |-> [it |-> TRUE, tup |-> <<7>>]]>>)}

InitKey ==
    /\ pool_size = 1
    /\ max_overflow = -1
    /\ NoThreads
    /\ RegistryInit
    /\ \E c1, c2 \in OptDicts, s1, s2 \in SslDicts, h2 \in 1..2 :
         menu = <<[host |-> 1, conv |-> c1, ssl |-> s1],
                  [host |-> h2, conv |-> c2, ssl |-> s2]>>

NextKey == \E i \in 1..2 : Connect(i)

SpecKey == InitKey /\ [][NextKey]_vars

\* SpecBounded: one process calls connect() for two parameter sets that may
\* hold a conv dict, on pools of one connection with no overflow, and
\* releases.
InitBounded ==
    /\ pool_size = 1
    /\ max_overflow = 0
    /\ NoThreads
    /\ RegistryInit
    /\ \E c1, c2 \in OptDicts :
         menu = <<[host |-> 1, conv |-> c1, ssl |-> None],
                  [host |-> 1, conv |-> c2, ssl |-> None]>>

NextBounded ==
    \/ \E i \in 1..2 : Connect(i)
    \/ \E j \in 1..MaxOut : ReleaseConn(j)

SpecBounded == InitBounded /\ [][NextBounded]_vars

\* ------------------------------------------------- recycling (spec 4.3)
\* The age test is made by sqlalchemy after _do_get has returned (base.py
\* only passes the recycle age, line 136); it is modelled as the
\* specification states it, for one pool used by one caller at a time.
Settings == {<<>>, [recycle |-> 60]}
Ticks == {59, 60}

\* a connection created at time c may not be handed out any more
is_stale_strict(c) == now - c > recycle

is_stale(c) == now - c >= recycle

\* step 4 of the acquisition for counter value ov: the reservation, then the
\* factory, which stamps the connection with the time of its creation
CreateAged(ov, ok) ==
    IF ~inc_overflow_ok(ov) THEN [kind |-> "retry", overflow |-> ov, stamp |-> None]
    ELSE IF ok THEN [kind |-> "conn", overflow |-> ov + 1, stamp |-> Some(now)]
    ELSE [kind |-> "FactoryError", overflow |-> ov, stamp |-> None]

\* an acquisition: an idle connection is taken and returned unless it is
\* stale; a stale one is discarded, the counter is decremented for it, and
\* the acquisition goes on to step 4 as it does when the idle set is empty
AcquireAged ==
    /\ aged # None
    /\ Len(aged[1].out) < MaxOut
    /\ \E ok \in BOOLEAN, a \in {aged[1]} :
         IF a.idle # <<>> /\ ~is_stale(Head(a.idle))
         THEN aged' = Some([a EXCEPT !.idle = Tail(@), !.out = Append(@, Head(a.idle)),
                                     !.last = [kind |-> "conn", stamp |-> Some(Head(a.idle)),
                                               at |-> now, discarded |-> None,
                                               emptyWouldGive |-> None]])
         ELSE IF a.idle = <<>> /\ pool_full(a.overflow)
         THEN aged' = Some([a EXCEPT !.last = [kind |-> "TimeoutError", stamp |-> None,
                                               at |-> now, discarded |-> None,
                                               emptyWouldGive |-> None]])
         ELSE \E ov \in {IF a.idle = <<>> THEN a.overflow ELSE a.overflow - 1} :
              \E got \in {CreateAged(ov, ok)} :
                 aged' = Some([a EXCEPT
                     !.idle = IF a.idle = <<>> THEN <<>> ELSE Tail(@),
                     !.overflow = got.overflow,
                     !.out = IF got.kind = "conn" THEN Append(@, got.stamp[1]) ELSE @,
                     !.last = [kind |-> got.kind, stamp |-> got.stamp, at |-> now,
                               discarded |-> IF a.idle = <<>> THEN None
                                             ELSE Some(Head(a.idle)),
                               emptyWouldGive |-> Some(CreateAged(ov, ok).kind)]])
    /\ UNCHANGED <<pool_size, max_overflow, poolvars, pid, MYSQLPOOL, proxies, objs, out,
                   menu, seen, last, now, recycle>>

\* a release (spec 4.4): the connection is queued, or closed when the idle
\* set is full
ReleaseAged(j) ==
    /\ aged # None
    /\ j \in DOMAIN aged[1].out
    /\ LET a == aged[1]
           rest == SubSeq(a.out, 1, j - 1) \o SubSeq(a.out, j + 1, Len(a.out))
       IN aged' = Some(IF Len(a.idle) < pool_size
                       THEN [a EXCEPT !.idle = Append(@, a.out[j]), !.out = rest]
                       ELSE [a EXCEPT !.overflow = @ - 1, !.out = rest])
    /\ UNCHANGED <<pool_size, max_overflow, poolvars, pid, MYSQLPOOL, proxies, objs, out,
                   menu, seen, last, now, recycle>>

\* time passes
Tick ==
    /\ \E d \in Ticks : now + d <= MaxNow /\ now' = now + d
    /\ UNCHANGED <<pool_size, max_overflow, poolvars, pid, MYSQLPOOL, proxies, objs, out,
                   menu, seen, last, recycle, aged>>

\* SpecAge: a pool created by get_pool() with the recycle age of the
\* settings, its connections ageing between the calls.
InitAge ==
    /\ pool_size = 1
    /\ max_overflow \in {0, 1}
    /\ NoThreads
    /\ pid = 0 /\ MYSQLPOOL = None /\ proxies = FALSE /\ objs = <<>> /\ out = <<>>
    /\ menu = <<>> /\ seen = {} /\ last = None
    /\ now = 0
    /\ \E args \in Settings :
         /\ recycle = recycle_setting(args)
         /\ aged = Some([args |-> args, overflow |-> 0 - pool_size, idle |-> <<>>,
                         out |-> <<>>,
                         last |-> [kind |-> "none", stamp |-> None, at |-> 0,
                                   discarded |-> None, emptyWouldGive |-> None]])

NextAge ==
    \/ AcquireAged
    \/ \E j \in 1..MaxOut : ReleaseAged(j)
    \/ Tick

SpecAge == InitAge /\ [][NextAge]_vars

\* ------------------------------------------------------------------ claims
RECURSIVE SumTo(_, _)
SumTo(f, n) == IF n = 0 THEN 0 ELSE f[n] + SumTo(f, n - 1)

\* connections checked out to callers
CheckedOut == SumTo(held, NThreads)

\* calls that hold a reservation and have not yet created or rolled back
Reserved == Cardinality({t \in Threads : loc[t].pc \in {"L62", "L69", "L72"}})

\* releases that found the queue full and have not yet closed
Closing == Cardinality({t \in Threads : loc[t].pc = "full"})

Acquiring(t) == loc[t].pc \in {"L38", "L42", "blocked", "L44", "L45", "L52",
                               "L60", "L62", "L69", "L72"}

TimedOut(t) == loc[t].pc = "done" /\ loc[t].result.kind = "TimeoutError"

\* C1: with max overflow M >= 0, the connections checked out at any moment
\* number at most pool_size + max_overflow, whatever the interleaving.
C1_CheckedOutBounded ==
    use_overflow => CheckedOut <= pool_size + max_overflow

\* the pool is at its limit and another caller is suspended in the queue
C1_Witness ==
    /\ use_overflow
    /\ CheckedOut = pool_size + max_overflow
    /\ \E t \in Threads : loc[t].pc = "blocked"

\* C2: with max_overflow = -1 no acquire ends in TimeoutError (none is even
\* suspended); an acquire ends with a connection or with the factory's error.
C2_UnlimitedNeverTimesOut ==
    max_overflow = -1 =>
        \A t \in Threads :
            /\ loc[t].pc \notin {"blocked", "L45", "L52"}
            /\ ~loc[t].wait
            /\ loc[t].pc = "done" =>
                 loc[t].result.kind \in {"conn", "FactoryError", "released"}

\* an unlimited pool has created a connection beyond its base size, and
\* one of its acquires has failed in the factory
C2_Witness ==
    /\ max_overflow = -1
    /\ overflow > 0
    /\ \E t \in Threads : loc[t].pc = "done" /\ loc[t].result.kind = "FactoryError"

\* C3: TimeoutError is raised only by an attempt that chose to wait with the
\* counter at or above max_overflow >= 0, whose wait ran to the timeout, and
\* that found the counter still at or above max_overflow on line 44; an
\* attempt that polled never raises it.
C3_TimeoutOnlyAfterWait ==
    \A t \in Threads :
        (loc[t].pc = "L52" \/ TimedOut(t)) =>
            /\ use_overflow
            /\ loc[t].wait
            /\ hist[t].w41 # None /\ hist[t].w41[1] >= max_overflow
            /\ hist[t].blocked /\ hist[t].timedOut /\ ~hist[t].polled
            /\ hist[t].c44 # None /\ hist[t].c44[1] >= max_overflow

\* a call polled first, retried, waited and timed out
C3_Witness ==
    \E t \in Threads : TimedOut(t) /\ hist[t].retried

\* the step in which thread t raises TimeoutError
Raises(t) == loc[t].pc = "L52" /\ loc'[t].pc = "done"

C5_FactoryFailureRollsBack ==
    /\ \A t \in Threads :
         (loc[t].pc = "done" /\ loc[t].result.kind = "FactoryError") =>
            /\ hist[t].net = 0
            /\ hist[t].creates = 1
            /\ hist[t].raised = Some(loc[t].result.exc)
    /\ overflow + pool_size = idle + CheckedOut + Reserved + Closing

\* a bounded pool whose last overflow place was reserved and given back by a
\* failed creation, while another caller holds a connection
C5_Witness ==
    /\ max_overflow > 0
    /\ overflow = max_overflow - 1
    /\ CheckedOut > 0
    /\ \E t \in Threads : loc[t].pc = "done" /\ loc[t].result.kind = "FactoryError"

\* what C6 says of each state
C6_State ==
    use_overflow =>
        /\ CheckedOut + Reserved <= pool_size + max_overflow
        /\ overflow + pool_size = CheckedOut + Reserved
        /\ \A t \in Threads :
             /\ loc[t].pc \in {"blocked", "L45", "L52"} =>
                  CheckedOut + Reserved = pool_size + max_overflow
             /\ TimedOut(t) =>
                  /\ CheckedOut + Reserved = pool_size + max_overflow
                  /\ hist[t].blocked /\ hist[t].timedOut
                  /\ loc[t].result.args.size = pool_size
                  /\ loc[t].result.args.overflow = max_overflow
                  /\ hist[t].warn45 # None
                  /\ hist[t].warn45[1].max_overflow = max_overflow
                  /\ hist[t].warn45[1].size = pool_size

ReleaseNeverBlocks ==
    \A t \in Threads :
        /\ loc[t].pc = "full" => ENABLED Release_close(t)
        /\ (loc[t].pc = "idle" /\ held[t] > 0) => ENABLED Release_put(t)

\* C10: a release either queues the connection (when the queue holds fewer
\* than pool_size: the counter is unchanged and nothing is closed) or, the
\* queue being full, closes it and decrements the counter by one; each of its
\* steps can always be taken.
C10_ReleaseEffect ==
    /\ []ReleaseNeverBlocks
    /\ [][\A t \in Threads :
            /\ (loc[t].pc = "idle" /\ held'[t] = held[t] - 1) =>
                  /\ overflow' = overflow
                  /\ IF idle < pool_size
                     THEN /\ idle' = idle + 1
                          /\ loc'[t].pc = "done"
                          /\ hist'[t].rel[1].queued /\ ~hist'[t].rel[1].closed
                     ELSE /\ idle' = idle
                          /\ loc'[t].pc = "full"
                          /\ ~hist'[t].rel[1].queued
            /\ (loc[t].pc = "full" /\ loc'[t].pc # "full") =>
                  /\ overflow' = overflow - 1
                  /\ idle' = idle
                  /\ loc'[t].pc = "done"
                  /\ hist'[t].rel[1].closed /\ ~hist'[t].rel[1].queued]_vars

\* both effects have happened: one release was queued, another closed its
\* connection with the queue full
C10_Witness ==
    \E t, u \in Threads :
        /\ loc[t].pc = "done" /\ loc[t].result.kind = "released"
        /\ hist[t].rel[1].closed /\ hist[t].rel[1].idleAtPut = pool_size
        /\ loc[u].pc = "done" /\ loc[u].result.kind = "released"
        /\ hist[u].rel[1].queued

\* value equality of two optional dicts, and of two parameter sets
OptDictEq(a, b) == (a = None /\ b = None) \/ (a # None /\ b # None /\ DictEq(a[1], b[1]))

ParamsEq(p, q) ==
    p.host = q.host /\ OptDictEq(p.conv, q.conv) /\ OptDictEq(p.ssl, q.ssl)

\* C7: connect() calls whose parameter maps are value-equal, nested dicts
\* compared as dicts whatever the order of their entries, derive keys that
\* are equal and hash alike, and are served by the same pool.
C7_EqualParamsSamePool ==
    \A a, b \in seen :
        ParamsEq(menu[a.arg], menu[b.arg]) =>
            /\ KeyEq(a.key, b.key)
            /\ HashKey(a.key) = HashKey(b.key)
            /\ a.pool = b.pool

\* C8: the connects a process makes for one key, with no fork in between,
\* are all served by the same pool object, and the manager holds at most one
\* pool per key.
C8_OnePoolPerKey ==
    /\ \A a, b \in seen : a.key = b.key => a.pool = b.pool
    /\ MYSQLPOOL # None =>
         \A e, f \in MYSQLPOOL[1].pools : e.key = f.key => e.pool = f.pool

\* in a forked child, whose pid is not the recorded one, a connect was served
\* by the pool that an earlier connect of the child had created
C8_Witness ==
    /\ last # None
    /\ last[1].stale
    /\ last[1].pid = pid
    /\ last[1].pool \in last[1].before
    /\ objs[last[1].pool].born = pid

\* C9: the first connect a process makes after its fork, made for a known
\* key while the recorded pid is not the current one, is served by a pool
\* object that did not exist before the call and was created in this
\* process, and no connect hands out a connection that was made in another
\* process.
C9_ForkGetsFreshPool ==
    last # None =>
        /\ (last[1].stale /\ last[1].first /\ last[1].known) =>
              /\ last[1].pool \notin last[1].before
              /\ objs[last[1].pool].born = last[1].pid
        /\ last[1].kind = "conn" => last[1].madeIn = last[1].pid

\* the outcomes of an acquire
Outcomes == {"conn", "TimeoutError", "FactoryError"}

\* C12: under fair scheduling every acquire ends, with a connection, a
\* TimeoutError or the factory's error: _do_get does not retry forever.
C12_AcquireTerminates ==
    \A t \in Threads :
        [](Acquiring(t) => <>(loc[t].pc = "done" /\ loc[t].result.kind \in Outcomes))

C13_OneFullWait ==
    [][\A t \in Threads :
         ~(loc[t].pc = "blocked" /\ hist[t].timedOut /\ loc'[t].pc = "L44")]_vars

\* the connections checked out for parameter set p: those of the pools whose
\* key is the key of a parameter set value-equal to p
OutFor(p) ==
    {j \in DOMAIN out :
        \E b \in DOMAIN menu :
            /\ ParamsEq(p, menu[b])
            /\ KeyEq(objs[out[j].pool].key, connect_kwargs(menu[b]))}

\* C14: with max_overflow >= 0, the connections checked out through
\* connect() for one parameter set in one process number at most
\* pool_size + max_overflow.
C14_ConnectBounded ==
    use_overflow =>
        \A a \in DOMAIN menu : Cardinality(OutFor(menu[a])) <= pool_size + max_overflow

\* C15: within a call, _do_get starts again only when another caller has
\* changed the counter during the attempt: on line 50, after a poll that was
\* chosen with the counter below max_overflow and came back empty with the
\* counter at or above it; on line 74, when _inc_overflow is refused although
\* line 44 had just found the counter below max_overflow. A failed creation
\* and a wait that timed out with the counter still at the limit do not
\* retry.
C15_RetryOnlyOnChange ==
    [][\A t \in Threads :
         /\ (loc[t].pc \notin {"idle", "L38"} /\ loc'[t].pc = "L38") =>
               /\ use_overflow
               /\ \/ /\ loc[t].pc = "L45"
                     /\ ~loc[t].wait /\ hist[t].polled /\ ~hist[t].timedOut
                     /\ hist[t].w41[1] < max_overflow
                     /\ hist[t].c44[1] >= max_overflow
                  \/ /\ loc[t].pc = "L60"
                     /\ hist[t].c44[1] < max_overflow
                     /\ overflow >= max_overflow
                     /\ overflow' = overflow
         /\ loc[t].pc = "L72" => loc'[t].pc \in {"L72", "done"}
         /\ (loc[t].pc = "L45" /\ hist[t].timedOut) => loc'[t].pc \in {"L45", "L52"}]_vars

\* a call is starting again after its reservation was refused
C15_Witness ==
    \E t \in Threads :
        /\ loc[t].pc = "L38"
        /\ hist[t].retried
        /\ hist[t].c44 # None
        /\ hist[t].c44[1] < max_overflow

\* C16: with max_overflow >= 0 the counter never exceeds max_overflow,
\* whatever the interleaving of acquires, releases and factory failures.
C16_OverflowBounded ==
    use_overflow => overflow <= max_overflow

\* the counter is at max_overflow > 0 and a caller that had found it below
\* on line 44 is about to ask for a place, which will be refused
C16_Witness ==
    /\ max_overflow > 0
    /\ overflow = max_overflow
    /\ \E t \in Threads :
         /\ loc[t].pc = "L60"
         /\ hist[t].c44[1] < max_overflow

\* C17: an acquire that is about to create a connection emits the warning of
\* lines 63-66 only when the pool already has pool_size connections (idle,
\* checked out, being closed, or being created by other callers), so that
\* the new one is an overflow connection; and every acquire that ends in
\* TimeoutError has logged the error of lines 52-54.
C17_WarnOnlyBeyondBase ==
    /\ [](\A t \in Threads : TimedOut(t) => hist[t].errlog)
    /\ [][\A t \in Threads :
            (loc[t].pc = "L62" /\ hist'[t].warn62 # None) =>
                idle + CheckedOut + Closing + (Reserved - 1) >= pool_size]_vars

\* no acquire and no release is in progress
Quiescent == \A t \in Threads : loc[t].pc = "idle"

\* C18: whenever no acquire or release is in progress, pool_size plus the
\* counter is the number of connections of the pool, idle and checked out.
C18_CounterMatchesConnections ==
    Quiescent => pool_size + overflow = idle + CheckedOut

\* at rest with the queue full and every overflow connection checked out
C18_Witness ==
    /\ Quiescent
    /\ max_overflow > 0
    /\ idle = pool_size
    /\ CheckedOut = max_overflow

\* the parameters a pool's factory is called with: those of its key
KeyDict(key, name) ==
    IF \E i \in DOMAIN key : key[i].name = name
    THEN Some((CHOOSE e \in {key[i] : i \in DOMAIN key} : e.name = name).val.d)
    ELSE None

KeyParams(key) ==
    [host |-> (CHOOSE e \in {key[i] : i \in DOMAIN key} : e.name = "host").val.n,
     conv |-> KeyDict(key, "conv"),
     ssl |-> KeyDict(key, "ssl")]

\* C19: connect() calls whose parameter maps are not value-equal (a conv or
\* ssl dict that is present but empty differs from an absent one) are served
\* by different pools, and the factory of the pool that serves a call is
\* called with parameters value-equal to the caller's.
C19_FactoryGetsCallersParams ==
    \A a, b \in seen :
        /\ ~ParamsEq(menu[a.arg], menu[b.arg]) => a.pool # b.pool
        /\ ParamsEq(menu[a.arg], KeyParams(objs[a.pool].key))

=============================================================================
